---- MODULE Spec2Model ----
(***************************************************************************)
(* Model of the feature-toggle proof of concept:                           *)
(*   scripts/enforce-toggles.js     the manifest-consistency checker       *)
(*   src/utils/useReleaseToggle.jsx the hook reading entitlement flags     *)
(*                                                                         *)
(* Text is a sequence of one-character strings, so that the regular        *)
(* expression of the checker is matched character by character.  A JS Set  *)
(* is a duplicate-free sequence in insertion order.                        *)
(***************************************************************************)
EXTENDS Integers, Sequences, FiniteSets, TLC

\* ------------------------------------------------------------ text helpers

Range(s) == {s[i] : i \in 1..Len(s)}

NoDup(s) == \A i, j \in 1..Len(s) : i # j => s[i] # s[j]

\* Set.prototype.add on a Set kept as a duplicate-free sequence
SetAdd(s, x) == IF x \in Range(s) THEN s ELSE Append(s, x)

RECURSIVE SetAddAll(_, _)
SetAddAll(s, xs) ==
    IF xs = <<>> THEN s ELSE SetAddAll(SetAdd(s, Head(xs)), Tail(xs))

\* ------------------------------------------------- TOGGLE_CALL_RE (line 25)

HookName ==
    <<"u","s","e","R","e","l","e","a","s","e","T","o","g","g","l","e">>

\* the backtick character, which a TLA+ string cannot hold
BackTick == "BACKTICK"

QuoteChars == {"'", "\"", BackTick}

\* \s of the regular expression, restricted to the characters used here
WhiteSpace == {" ", "\n", "\t"}

\* character at 0-based JS index i
CharAt(s, i) == s[i + 1]

\* the literal useReleaseToggle matches at JS index i
HookAt(s, i) ==
    /\ i + Len(HookName) <= Len(s)
    /\ \A k \in 1..Len(HookName) : s[i + k] = HookName[k]

\* \s* : greedy run of white space starting at i; returns the index after it
RECURSIVE SkipSpace(_, _)
SkipSpace(s, i) ==
    IF i < Len(s) /\ CharAt(s, i) \in WhiteSpace THEN SkipSpace(s, i + 1) ELSE i

\* the class of non-quote characters, one or more: greedy run; returns the
\* index after it
RECURSIVE SkipNonQuote(_, _)
SkipNonQuote(s, i) ==
    IF i < Len(s) /\ CharAt(s, i) \notin QuoteChars
    THEN SkipNonQuote(s, i + 1) ELSE i

\* The whole pattern anchored at JS index i.  No piece of the pattern can
\* match a character the next piece starts with, so the greedy match is the
\* only one and no backtracking is needed.
MatchAt(s, i) ==
    IF ~HookAt(s, i) THEN [ok |-> FALSE]
    ELSE LET p1 == SkipSpace(s, i + Len(HookName)) IN
         IF ~(p1 < Len(s) /\ CharAt(s, p1) = "(") THEN [ok |-> FALSE]
         ELSE LET p2 == SkipSpace(s, p1 + 1) IN
              IF ~(p2 < Len(s) /\ CharAt(s, p2) \in QuoteChars)
              THEN [ok |-> FALSE]
              ELSE LET p3 == SkipNonQuote(s, p2 + 1) IN
                   IF p3 = p2 + 1 \/ ~(p3 < Len(s)) THEN [ok |-> FALSE]
                   ELSE [ok |-> TRUE,
                         key |-> SubSeq(s, p2 + 2, p3),
                         end |-> p3 + 1]

\* leftmost index >= i where the pattern matches, or -1
RECURSIVE FindFrom(_, _)
FindFrom(s, i) ==
    IF i > Len(s) THEN -1
    ELSE IF MatchAt(s, i).ok THEN i ELSE FindFrom(s, i + 1)

\* RegExp.prototype.exec of a global regex, without the reset of lastIndex
\* that a failed match performs
ExecNoReset(s, lastIndex) ==
    LET at == FindFrom(s, lastIndex) IN
    IF at = -1 THEN [found |-> FALSE, key |-> <<>>, lastIndex |-> lastIndex]
    ELSE [found |-> TRUE, key |-> MatchAt(s, at).key,
          lastIndex |-> MatchAt(s, at).end]

\* TOGGLE_CALL_RE.exec(content): the search starts at lastIndex; a match
\* moves lastIndex behind it, a failure returns null and sets lastIndex to 0
Exec(s, lastIndex) ==
    LET at == FindFrom(s, lastIndex) IN
    IF at = -1 THEN [found |-> FALSE, key |-> <<>>, lastIndex |-> 0]
    ELSE [found |-> TRUE, key |-> MatchAt(s, at).key,
          lastIndex |-> MatchAt(s, at).end]

\* while ((m = TOGGLE_CALL_RE.exec(content)) !== null) keys.add(m[1])
RECURSIVE ExecLoop(_, _, _)
ExecLoop(s, lastIndex, keys) ==
    LET r == Exec(s, lastIndex) IN
    IF ~r.found THEN [keys |-> keys, lastIndex |-> r.lastIndex]
    ELSE ExecLoop(s, r.lastIndex, SetAdd(keys, r.key))

\* ------------------------------------------------------------- the inputs

kExample == <<"e","x","a","m","p","l","e","F","e","a","t","u","r","e">>
kTypo    == <<"e","x","m","a","p","l","e","F","e","a","t","u","r","e">>
kAnother == <<"a","n","o","t","h","e","r","T","o","g","g","l","e">>
kVendor  == <<"v","e","n","d","o","r">>

\* useReleaseToggle(<q>key<q>), the call as it is written in a source file
Call(q, key) == HookName \o <<"(", q>> \o key \o <<q, ")">>

\* the same call spread over white space: useReleaseToggle ( <q>key<q> )
CallSpaced(q, key) == HookName \o <<" ", "(", "\n", q>> \o key \o <<q, " ", ")">>

\* useReleaseToggle(variableName)
CallVariable == HookName \o <<"(", "v", "a", "r", ")">>

srcKnown     == Call("'", kExample)
srcTypoTwice == Call("'", kTypo) \o <<";", "\n">> \o CallSpaced("\"", kTypo)
srcVariable  == CallVariable \o <<"\n">> \o Call(BackTick, kAnother)
srcVendor    == Call("\"", kVendor)

SourceTexts == {srcKnown, srcTypoTwice, srcVariable}

nmName  == <<"n","o","d","e","_","m","o","d","u","l","e","s">>
libName == <<"l","i","b">>
pkgName == <<"p","k","g">>
srcName == <<"s","r","c">>

\* entries of the scanned tree: SRC_DIR holds f1 and d1, d1 holds f2 and d2,
\* d2 holds f3
NodeIds == {"root", "f1", "d1", "f2", "d2", "f3"}

Parent(n) ==
    CASE n = "f1" -> "root"
      [] n = "d1" -> "root"
      [] n = "f2" -> "d1"
      [] n = "d2" -> "d1"
      [] n = "f3" -> "d2"
      [] OTHER    -> "root"

File(name, text) == [name |-> name, kind |-> "file", content |-> text]
Link(name)       == [name |-> name, kind |-> "symlink", content |-> <<>>]
Dir(name)        == [name |-> name, kind |-> "dir", content |-> <<>>]

F1Choices ==
    {File(nm, t) : nm \in {<<"a",".","j","s">>, <<"a",".","j","s","x">>,
                           <<"a",".","m","d">>}, t \in SourceTexts}
    \cup {Link(<<"l",".","t","s">>)}

F2Choices ==
    {File(nm, t) : nm \in {<<"b",".","t","s">>, <<"b",".","t","s","x">>,
                           <<"b",".","j","s","o","n">>}, t \in SourceTexts}

F3Choices == {File(<<"c",".","j","s">>, srcVendor)}

D1Choices == {Dir(libName), Dir(nmName)}

\* v.js is a directory whose name ends like a script file
D2Choices == {Dir(pkgName), Dir(nmName), Dir(<<"v",".","j","s">>)}

Trees ==
    {[root |-> Dir(srcName), f1 |-> a, d1 |-> b, f2 |-> c, d2 |-> d, f3 |-> e] :
        a \in F1Choices, b \in D1Choices, c \in F2Choices, d \in D2Choices,
        e \in F3Choices}

\* readdirSync returns the entries of a directory in an order the file
\* system chooses
Listings ==
    {[root |-> r, d1 |-> x, d2 |-> <<"f3">>] :
        r \in {<<"f1", "d1">>, <<"d1", "f1">>},
        x \in {<<"f2", "d2">>, <<"d2", "f2">>}}

\* the entry (if any) whose read fails: EACCES, ENOENT after a racing delete
Broken == NodeIds \cup {"none"}

\* The manifest file: absent, unreadable, or its text.  The text is kept as
\* the value JSON.parse yields for it ("invalid" when JSON.parse throws); an
\* object is the sequence of its own keys.
JsonArray(items) == [kind |-> "array", items |-> items]
JsonObject(keys) == [kind |-> "object", items |-> keys]
JsonOther(kind)  == [kind |-> kind, items |-> <<>>]

ManifestFiles ==
    {JsonOther("missing"), JsonOther("unreadable"), JsonOther("invalid"),
     JsonOther("null"), JsonOther("number"),
     JsonArray(<<kExample, kAnother>>), JsonArray(<<kTypo, kTypo, kExample>>),
     JsonArray(<<>>),
     JsonObject(<<kExample, kAnother>>), JsonObject(<<kTypo>>)}

\* ---------------------------------------------------------------- state

VARIABLES
    pc,          \* position of the script: "main", "walk", "scan", "exited"
    manifest,    \* the file at MANIFEST_PATH
    tree,        \* the entries under SRC_DIR
    listing,     \* the order readdirSync lists each directory in
    broken,      \* the entry whose read throws, or "none"
    defined,     \* main: the Set of manifest keys
    used,        \* extractAllUsedKeys: the Set of used keys
    unknown,     \* main: the array of unknown keys
    lastIndex,   \* TOGGLE_CALL_RE.lastIndex
    stack,       \* the active walkJsFiles generators: entries still to visit
    yielded,     \* the files walkJsFiles has yielded so far
    exitCode,    \* the exit status of the process, NoExit while it runs
    out          \* what the script has written with console.error/warn/log

runVars == <<pc, manifest, tree, listing, broken, defined, used, unknown,
             stack, yielded, exitCode, out>>

NoExit == -1
ExitOk == 0
ExitUncaught == 1
ExitManifest == 2

\* ------------------------------------------------- enforce-toggles.js

\* loadManifest with Object.keys tolerating null
loadManifestNullOk(file) ==
    IF file.kind \in {"missing", "unreadable", "invalid"}
    THEN [ok |-> FALSE, keys |-> <<>>]
    ELSE [ok |-> TRUE, keys |-> file.items]

\* Object.keys of an array: its indices
IndexKeys(items) == [i \in 1..Len(items) |-> <<(<<"0", "1", "2", "3">>)[i]>>]

\* loadManifest without the Array.isArray branch
loadManifestKeysOnly(file) ==
    IF file.kind \in {"missing", "unreadable", "invalid", "null"}
    THEN [ok |-> FALSE, keys |-> <<>>]
    ELSE IF file.kind = "array" THEN [ok |-> TRUE, keys |-> IndexKeys(file.items)]
    ELSE [ok |-> TRUE, keys |-> file.items]

\* loadManifest: readFileSync and JSON.parse inside try; Object.keys(null)
\* throws a TypeError inside the same try, Object.keys of a number is empty
loadManifest(file) ==
    IF file.kind \in {"missing", "unreadable", "invalid", "null"}
    THEN [ok |-> FALSE, keys |-> <<>>]
    ELSE [ok |-> TRUE, keys |-> file.items]

EndsWith(name, suffix) ==
    /\ Len(name) >= Len(suffix)
    /\ SubSeq(name, Len(name) - Len(suffix) + 1, Len(name)) = suffix

\* the test of the file-name pattern: a dot, then js, jsx, ts or tsx, then
\* the end of the name
IsJsName(name) ==
    \/ EndsWith(name, <<".", "j", "s">>)
    \/ EndsWith(name, <<".", "j", "s", "x">>)
    \/ EndsWith(name, <<".", "t", "s">>)
    \/ EndsWith(name, <<".", "t", "s", "x">>)

\* e.isDirectory() without the exclusion of node_modules
DescendsAnyDir(e) == e.kind = "dir"

\* e.isDirectory() && e.name !== "node_modules"
Descends(e) == e.kind = "dir" /\ e.name # nmName

\* e.isFile() && the file-name pattern matches e.name
Yields(e) == e.kind = "file" /\ IsJsName(e.name)

\* extractToggleKeysFromFile, given the content readFileSync returned
extractToggleKeysFromFile(content, li) == ExecLoop(content, li, <<>>)

\* the filter with its test inverted
UnknownOfInverted(usedKeys, definedKeys) ==
    LET IsDefined(k) == k \in Range(definedKeys)
    IN  SelectSeq(usedKeys, IsDefined)

\* [...used].filter((k) => !defined.has(k))
UnknownOf(usedKeys, definedKeys) ==
    LET NotDefined(k) == k \notin Range(definedKeys)
    IN  SelectSeq(usedKeys, NotDefined)

\* an exception nobody catches ends the process
Crash ==
    /\ pc' = "exited"
    /\ exitCode' = ExitUncaught

Top == stack[Len(stack)]

\* the stack with the entry at the head of the innermost generator consumed
Consumed == [stack EXCEPT ![Len(stack)] = Tail(Top)]

\* main: const defined = new Set(loadManifest())
LoadManifest ==
    /\ pc = "main"
    /\ LET r == loadManifest(manifest) IN
       IF r.ok
       THEN /\ defined' = SetAddAll(<<>>, r.keys)
            /\ pc' = "walk"
            /\ UNCHANGED <<exitCode, out>>
       ELSE /\ out' = Append(out, [stream |-> "error", keys |-> <<>>])
            /\ exitCode' = ExitManifest
            /\ pc' = "exited"
            /\ UNCHANGED defined
    /\ UNCHANGED <<manifest, tree, listing, broken, used, unknown, lastIndex,
                   stack, yielded>>

\* extractAllUsedKeys: walkJsFiles(SRC_DIR) reads the root directory
EnterRoot ==
    /\ pc = "walk"
    /\ IF broken = "root"
       THEN Crash /\ UNCHANGED stack
       ELSE pc' = "scan" /\ stack' = <<listing.root>> /\ UNCHANGED exitCode
    /\ UNCHANGED <<manifest, tree, listing, broken, defined, used, unknown,
                   lastIndex, yielded, out>>

\* walkJsFiles: the entry is a directory to walk; readdirSync may throw
Descend ==
    /\ pc = "scan" /\ stack # <<>> /\ Top # <<>>
    /\ Descends(tree[Head(Top)])
    /\ IF broken = Head(Top)
       THEN Crash /\ UNCHANGED stack
       ELSE stack' = Append(Consumed, listing[Head(Top)])
            /\ UNCHANGED <<pc, exitCode>>
    /\ UNCHANGED <<manifest, tree, listing, broken, defined, used, unknown,
                   lastIndex, yielded, out>>

\* walkJsFiles yields the file and the loop of extractAllUsedKeys adds its
\* keys; readFileSync may throw
ScanFile ==
    /\ pc = "scan" /\ stack # <<>> /\ Top # <<>>
    /\ ~Descends(tree[Head(Top)])
    /\ Yields(tree[Head(Top)])
    /\ yielded' = Append(yielded, Head(Top))
    /\ IF broken = Head(Top)
       THEN Crash /\ UNCHANGED <<stack, used, lastIndex>>
       ELSE LET r == extractToggleKeysFromFile(tree[Head(Top)].content,
                                               lastIndex) IN
            /\ used' = SetAddAll(used, r.keys)
            /\ lastIndex' = r.lastIndex
            /\ stack' = Consumed
            /\ UNCHANGED <<pc, exitCode>>
    /\ UNCHANGED <<manifest, tree, listing, broken, defined, unknown, out>>

\* walkJsFiles: the entry is neither walked nor yielded
SkipEntry ==
    /\ pc = "scan" /\ stack # <<>> /\ Top # <<>>
    /\ ~Descends(tree[Head(Top)])
    /\ ~Yields(tree[Head(Top)])
    /\ stack' = Consumed
    /\ UNCHANGED <<pc, manifest, tree, listing, broken, defined, used, unknown,
                   lastIndex, yielded, exitCode, out>>

\* walkJsFiles: a directory is exhausted and its generator returns
Return ==
    /\ pc = "scan" /\ stack # <<>> /\ Top = <<>>
    /\ stack' = SubSeq(stack, 1, Len(stack) - 1)
    /\ UNCHANGED <<pc, manifest, tree, listing, broken, defined, used, unknown,
                   lastIndex, yielded, exitCode, out>>

\* main: the comparison and the report, then the script ends
Report ==
    /\ pc = "scan" /\ stack = <<>>
    /\ unknown' = UnknownOf(used, defined)
    /\ out' = IF Len(unknown') > 0
              THEN Append(out, [stream |-> "warn", keys |-> unknown'])
              ELSE Append(out, [stream |-> "log", keys |-> <<>>])
    /\ exitCode' = ExitOk
    /\ pc' = "exited"
    /\ UNCHANGED <<manifest, tree, listing, broken, defined, used, lastIndex,
                   stack, yielded>>

RunInit ==
    /\ pc = "main"
    /\ manifest \in ManifestFiles
    /\ tree \in Trees
    /\ listing \in Listings
    /\ broken \in Broken
    /\ defined = <<>> /\ used = <<>> /\ unknown = <<>>
    /\ lastIndex = 0
    /\ stack = <<>> /\ yielded = <<>>
    /\ exitCode = NoExit
    /\ out = <<>>

RunNext ==
    \/ LoadManifest
    \/ EnterRoot
    \/ Descend
    \/ ScanFile
    \/ SkipEntry
    \/ Return
    \/ Report

\* ----------------------------------------------- extraction on its own

VARIABLES
    text,        \* the content of the file handed to the extraction
    keys,        \* the Set extractToggleKeysFromFile returned
    exPc         \* "ready" before the call, "done" after it

exVars == <<text, keys, exPc>>

MaxBodyLen == 2

\* what a string literal of the texts may hold between its delimiters
BodyChars == {"a", "b", "'", "\"", BackTick}

RECURSIVE SeqsUpTo(_, _)
SeqsUpTo(S, n) ==
    IF n = 0 THEN {<<>>}
    ELSE LET shorter == SeqsUpTo(S, n - 1) IN
         shorter \cup {Append(t, c) : t \in shorter, c \in S}

\* string literals: a delimiter, text without that delimiter, the delimiter
LiteralsOf(q) ==
    {<<q>> \o t \o <<q>> :
        t \in {u \in SeqsUpTo(BodyChars, MaxBodyLen) : q \notin Range(u)}}

Literals == UNION {LiteralsOf(q) : q \in QuoteChars}

Identifiers == {<<"a">>, <<"b">>}

Operands == Literals \cup Identifiers

\* the first argument of a call: a literal, a variable, or a concatenation
ArgTexts == Operands \cup {x \o <<"+">> \o y : x \in Operands, y \in Operands}

Blanks == {<<>>, <<" ">>}

\* one call of the hook: useReleaseToggle, blanks, (, blanks, argument, )
CallTexts ==
    {HookName \o w1 \o <<"(">> \o w2 \o a \o <<")">> :
        w1 \in Blanks, w2 \in Blanks, a \in ArgTexts}

ExtractFile ==
    /\ exPc = "ready"
    /\ LET r == extractToggleKeysFromFile(text, lastIndex) IN
       /\ keys' = r.keys
       /\ lastIndex' = r.lastIndex
    /\ exPc' = "done"
    /\ UNCHANGED text

ExtractInit ==
    /\ text \in CallTexts
    /\ keys = <<>>
    /\ exPc = "ready"
    /\ lastIndex = 0

ExtractIdle == text = <<>> /\ keys = <<>> /\ exPc = "idle"

\* ------------------------------------------------ useReleaseToggle.jsx

VARIABLES
    store,          \* state.common.entitlements of the store
    entitlements,   \* what useSelector returned to the last call of the hook
    toggleKey,      \* first argument of the last call of the hook
    options,        \* second argument of the last call of the hook
    ret,            \* what the last call returned
    lastDeps,       \* the dependency array of the effect at the last render
    effectPending,  \* the effect of the last render has not run yet
    alerted,        \* the last run of the effect entered its alert branch
    hookPc          \* "idle" before the first render, then "rendered"

hookVars == <<store, entitlements, toggleKey, options, ret, lastDeps, effectPending,
              alerted, hookPc>>

\* JS values are kept as strings
Undefined == "undefined"
JsNull == "null"
JsTrue == "true"
JsFalse == "false"

ToggleKeys == {"a", "toString"}

\* what every object inherits from Object.prototype, as far as ToggleKeys go
ProtoProps == [toString |-> "function"]

FlagValues == {JsTrue, JsFalse, Undefined}

\* an entitlements object: its own properties
EntitlementObjects ==
    UNION {[ks -> FlagValues] : ks \in SUBSET ToggleKeys}

\* the slot of the store: undefined, null, or an object
NoEntitlements(kind) == [kind |-> kind, own |-> <<>>]

Entitlements ==
    {NoEntitlements(Undefined), NoEntitlements(JsNull)}
    \cup {[kind |-> "object", own |-> o] : o \in EntitlementObjects}

\* the truthiness of the slot, the left operand of &&
IsObject(v) == v.kind = "object"

\* the second argument: left out, or an object; a property that is left out
\* reads as undefined
OptionObjects ==
    [given : {TRUE},
     defaultValue : {Undefined, JsTrue, JsFalse},
     alertIfUnknown : {Undefined, JsTrue, JsFalse}]

NoOptions ==
    [given |-> FALSE, defaultValue |-> Undefined, alertIfUnknown |-> Undefined]

OptionChoices == {NoOptions} \cup OptionObjects

Truthy(v) == v \notin {Undefined, JsNull, JsFalse}

\* the in operator: own or inherited
HasProperty(obj, key) == key \in DOMAIN obj.own \/ key \in DOMAIN ProtoProps

\* Object.prototype.hasOwnProperty.call(entitlements, toggleKey)
HasOwnProperty(obj, key) == key \in DOMAIN obj.own

\* entitlements[toggleKey]: own property first, then the prototype
GetProperty(obj, key) ==
    IF key \in DOMAIN obj.own THEN obj.own[key]
    ELSE IF key \in DOMAIN ProtoProps THEN ProtoProps[key]
    ELSE Undefined

\* { defaultValue = true, alertIfUnknown = true } = {} : a default applies
\* when the argument or the property is undefined
OptionOf(opts, field) ==
    IF ~opts.given THEN JsTrue
    ELSE IF opts[field] = Undefined THEN JsTrue
    ELSE opts[field]

\* toggleExists computed with the in operator
toggleExistsIn(ent, key) == IsObject(ent) /\ HasProperty(ent, key)

\* const toggleExists = entitlements && hasOwnProperty.call(...)
toggleExists(ent, key) == IsObject(ent) /\ HasOwnProperty(ent, key)

\* return toggleExists ? entitlements[toggleKey] : defaultValue
useReleaseToggle(ent, key, opts) ==
    IF toggleExists(ent, key) THEN GetProperty(ent, key)
    ELSE OptionOf(opts, "defaultValue")

\* [toggleKey, toggleExists, alertIfUnknown]
EffectDeps(ent, key, opts) ==
    <<key, toggleExists(ent, key), OptionOf(opts, "alertIfUnknown")>>

\* a component calls the hook while it renders; the effect is scheduled
\* when its dependencies differ from those of the render before
Render ==
    /\ ~effectPending
    /\ \E k \in ToggleKeys, o \in OptionChoices :
        /\ toggleKey' = k
        /\ options' = o
        /\ entitlements' = store
        /\ ret' = useReleaseToggle(store, k, o)
        /\ lastDeps' = EffectDeps(store, k, o)
        /\ effectPending' = (lastDeps # EffectDeps(store, k, o))
    /\ hookPc' = "rendered"
    /\ UNCHANGED <<store, alerted>>

\* useEffect: if (!toggleExists && alertIfUnknown) { the alert, a stub }
RunEffect ==
    /\ effectPending
    /\ effectPending' = FALSE
    /\ alerted' = (~lastDeps[2] /\ Truthy(lastDeps[3]))
    /\ UNCHANGED <<store, entitlements, toggleKey, options, ret, lastDeps,
                   hookPc>>

\* the store replaces state.common.entitlements
StoreUpdate ==
    /\ ~effectPending
    /\ \E e \in Entitlements : store' = e /\ e # store
    /\ UNCHANGED <<entitlements, toggleKey, options, ret, lastDeps, effectPending, alerted,
                   hookPc>>

HookInit ==
    /\ store \in Entitlements
    /\ entitlements = NoEntitlements(Undefined)
    /\ toggleKey = "a"
    /\ options = NoOptions
    /\ ret = Undefined
    /\ lastDeps = <<>>
    /\ effectPending = FALSE
    /\ alerted = FALSE
    /\ hookPc = "idle"

HookIdle ==
    /\ store = NoEntitlements(Undefined)
    /\ entitlements = NoEntitlements(Undefined)
    /\ toggleKey = "a"
    /\ options = NoOptions
    /\ ret = Undefined
    /\ lastDeps = <<>>
    /\ effectPending = FALSE
    /\ alerted = FALSE
    /\ hookPc = "off"

\* ------------------------------------------------------- specifications

vars == <<runVars, lastIndex, exVars, hookVars>>

\* one run of the checker
Init == RunInit /\ ExtractIdle /\ HookIdle

Next == RunNext /\ UNCHANGED <<exVars, hookVars>>

Spec == Init /\ [][Next]_vars

RunIdle ==
    /\ pc = "off"
    /\ manifest = JsonOther("missing")
    /\ tree = <<>> /\ listing = <<>> /\ broken = "none"
    /\ defined = <<>> /\ used = <<>> /\ unknown = <<>>
    /\ stack = <<>> /\ yielded = <<>>
    /\ exitCode = NoExit
    /\ out = <<>>

\* extractToggleKeysFromFile applied to one text
InitExtract == ExtractInit /\ RunIdle /\ HookIdle

NextExtract == ExtractFile /\ UNCHANGED <<runVars, hookVars>>

SpecExtract == InitExtract /\ [][NextExtract]_vars

\* a component rendering with the hook while the store changes
InitHook == HookInit /\ RunIdle /\ ExtractIdle /\ lastIndex = 0

NextHook ==
    \/ Render /\ UNCHANGED <<runVars, lastIndex, exVars>>
    \/ RunEffect /\ UNCHANGED <<runVars, lastIndex, exVars>>
    \/ StoreUpdate /\ UNCHANGED <<runVars, lastIndex, exVars>>

SpecHook == InitHook /\ [][NextHook]_vars

\* ------------------------------------------------------------ properties

\* the manifest cannot be read, or its text is not JSON
ManifestUnreadable == manifest.kind \in {"missing", "unreadable", "invalid"}

\* loadManifest has no key list to return
ManifestFails == ManifestUnreadable \/ manifest.kind = "null"

Exited == pc = "exited"

\* the entry lies beneath a directory named node_modules
RECURSIVE Beneath(_)
Beneath(n) ==
    IF n = "root" THEN FALSE
    ELSE tree[Parent(n)].name = nmName \/ Beneath(Parent(n))

\* the name ends in a dot followed by js, jsx, ts or tsx
HasScriptExtension(name) ==
    \E i \in 1..Len(name) :
        /\ name[i] = "."
        /\ SubSeq(name, i + 1, Len(name)) \in
              {<<"j", "s">>, <<"j", "s", "x">>, <<"t", "s">>, <<"t", "s", "x">>}

\* the regular script files outside every node_modules directory
ScriptFiles ==
    {n \in NodeIds : /\ tree[n].kind = "file"
                     /\ HasScriptExtension(tree[n].name)
                     /\ ~Beneath(n)}

\* C1: whenever the manifest loads, the process ends with status 0, and it
\* never ends with status 1.
ClaimExitStatus ==
    Exited => /\ (~ManifestFails => exitCode = ExitOk)
              /\ (exitCode # ExitOk => ManifestFails)
              /\ exitCode # ExitUncaught

\* C2 as stated: status 2 is produced exactly when the manifest is missing,
\* unreadable or not valid JSON.
ClaimManifestFailure == Exited => (ManifestUnreadable <=> exitCode = ExitManifest)

\* C2: a manifest that is missing, unreadable, not valid JSON, or the JSON
\* value null ends the run with status 2, which is not the success status,
\* before any entry of the source tree is listed or read and with neither
\* the warning nor the success notice written; status 2 arises in no other
\* case.
ManifestFailureHalts ==
    /\ ManifestFails =>
          /\ pc \in {"main", "exited"}
          /\ stack = <<>> /\ yielded = <<>> /\ used = <<>>
          /\ \A i \in 1..Len(out) : out[i].stream = "error"
    /\ Exited => (ManifestFails <=> exitCode = ExitManifest)
    /\ Exited /\ ManifestFails => exitCode # ExitOk /\ Len(out) = 1

ManifestFailureWitness ==
    Exited /\ manifest.kind = "null" /\ exitCode = ExitManifest

\* C3: the unknown keys of a completed run are exactly the used keys that
\* are not manifest keys; with the manifest exampleFeature, anotherToggle
\* and the used keys exampleFeature, exmapleFeature the unknown keys are
\* exmapleFeature alone.
UnknownIsSetDifference ==
    Exited /\ exitCode = ExitOk =>
        /\ Range(unknown) = Range(used) \ Range(manifest.items)
        /\ (/\ manifest = JsonArray(<<kExample, kAnother>>)
            /\ Range(used) = {kExample, kTypo}) => unknown = <<kTypo>>

UnknownIsSetDifferenceWitness ==
    /\ Exited /\ exitCode = ExitOk
    /\ manifest = JsonArray(<<kExample, kAnother>>)
    /\ Range(used) = {kExample, kTypo}
    /\ unknown = <<kTypo>>

\* the manifest of the other shape listing the same keys
Twin(m) ==
    IF m.kind = "array" THEN JsonObject(SetAddAll(<<>>, m.items))
    ELSE JsonArray(m.items)

\* C5: an array manifest contributes its elements and an object manifest
\* its keys, and the run ends as it would with the manifest of the other
\* shape that lists the same keys: same unknown keys, same exit status.
ManifestShapeEquivalence ==
    manifest.kind \in {"array", "object"} =>
        /\ pc \notin {"main", "exited"} => Range(defined) = Range(manifest.items)
        /\ Exited =>
              /\ loadManifest(Twin(manifest)).ok /\ exitCode # ExitManifest
              /\ exitCode = ExitOk =>
                    unknown = UnknownOf(used,
                        SetAddAll(<<>>, loadManifest(Twin(manifest)).keys))

ManifestShapeWitness ==
    /\ Exited /\ exitCode = ExitOk
    /\ manifest.kind = "array"
    /\ unknown # <<>>
    /\ Range(used) \cap Range(manifest.items) # {}

\* C6: no entry beneath a node_modules directory is ever visited or
\* yielded, a key that only a file beneath node_modules uses never becomes
\* a used key, and a completed walk has yielded every regular file named
\* .js, .jsx, .ts or .tsx outside those directories.
WalkSkipsNodeModules ==
    /\ \A i \in 1..Len(yielded) : ~Beneath(yielded[i])
    /\ \A f \in 1..Len(stack) : \A j \in 1..Len(stack[f]) : ~Beneath(stack[f][j])
    /\ Beneath("f3") => kVendor \notin Range(used)
    /\ Exited /\ exitCode = ExitOk => Range(yielded) = ScriptFiles

WalkSkipsNodeModulesWitness ==
    /\ Exited /\ exitCode = ExitOk
    /\ tree.d1.name = nmName
    /\ HasScriptExtension(tree.f2.name)
    /\ yielded = <<"f1">>

\* C7: a run whose manifest loads writes exactly one report: one warning
\* listing each unknown key once when there are unknown keys, otherwise one
\* success notice.
ClaimOneReport ==
    Exited /\ ~ManifestFails =>
        /\ Len(out) = 1
        /\ NoDup(out[1].keys)
        /\ out[1].stream = IF Range(used) \ Range(manifest.items) # {}
                           THEN "warn" ELSE "log"
        /\ Range(out[1].keys) = Range(used) \ Range(manifest.items)

\* C10: TOGGLE_CALL_RE.lastIndex is 0 whenever the extraction of a file
\* begins, and the used keys of a completed run are the union, over the
\* script files, of the keys a fresh extraction finds in each: the order in
\* which readdirSync lists the entries does not enter.
TraversalOrderIrrelevant ==
    /\ lastIndex = 0
    /\ Exited /\ exitCode = ExitOk =>
          Range(used) =
              UNION {Range(ExecLoop(tree[n].content, 0, <<>>).keys) :
                        n \in ScriptFiles}

TraversalOrderWitness ==
    /\ Exited /\ exitCode = ExitOk
    /\ listing.root = <<"d1", "f1">>
    /\ yielded = <<"f2", "f1">>
    /\ Len(used) = 2

\* ---- the extraction alone

\* the text of the first argument of the one call in text
FirstArg ==
    LET open == SkipSpace(text, Len(HookName))
        from == SkipSpace(text, open + 1)
    IN  SubSeq(text, from + 1, Len(text) - 1)

\* the argument is one string literal: a quote, text without that quote,
\* the same quote
IsLiteral(a) ==
    /\ Len(a) >= 2
    /\ a[1] \in QuoteChars
    /\ a[Len(a)] = a[1]
    /\ \A i \in 2..(Len(a) - 1) : a[i] # a[1]

LiteralText(a) == SubSeq(a, 2, Len(a) - 1)

\* C4: extraction is literal-only: a call whose first argument is not one
\* string literal (a variable, an expression, a concatenation) contributes
\* no key to the keys of the file.
ClaimLiteralOnly == exPc = "done" /\ ~IsLiteral(FirstArg) => keys = <<>>

\* C9: when the first argument is a string literal, the key captured from
\* it is the text between its opening delimiter and the matching closing
\* delimiter of the same kind, also when that text holds a quote of another
\* kind.
ClaimVerbatimLiteral ==
    exPc = "done" /\ IsLiteral(FirstArg) =>
        \A i \in 1..Len(keys) : keys[i] = LiteralText(FirstArg)

\* ---- the hook

\* C8: the hook returns the own value of toggleKey in the entitlements
\* object when there is one, and otherwise (no object, or no own key) the
\* defaultValue, which is true when it is not supplied; alertIfUnknown does
\* not enter.
HookReturnsValueOrDefault ==
    hookPc = "rendered" =>
        ret = IF entitlements.kind = "object" /\ toggleKey \in DOMAIN entitlements.own
              THEN entitlements.own[toggleKey]
              ELSE IF options.given /\ options.defaultValue # Undefined
                   THEN options.defaultValue
                   ELSE JsTrue

HookReturnsWitness ==
    /\ hookPc = "rendered"
    /\ entitlements.kind = "object"
    /\ toggleKey = "toString" /\ toggleKey \notin DOMAIN entitlements.own
    /\ options.given /\ options.defaultValue = JsFalse
    /\ options.alertIfUnknown = JsFalse
    /\ ret = JsFalse

====
